---- MODULE Spec2Model ----
(***************************************************************************)
(* ChromaDB Browser (src/ui/app.py): a Streamlit script that is executed   *)
(* from top to bottom once per user interaction (a "render cycle").  The   *)
(* model follows one browser session: the process-wide st.cache_resource   *)
(* entry of init_client, the widget state Streamlit keeps between cycles,  *)
(* the script's position and locals inside a cycle, and the calls it makes *)
(* to the remote vector store.                                             *)
(*                                                                         *)
(* Python values.  An optional value is a sequence of length at most one:  *)
(* None is <<>> and a present value x is <<x>>.  A str is a sequence of    *)
(* one-character strings.  A dict entry holding an array is a record       *)
(* [k, v]: k = "missing" (the key is not in the dict), "null" (the value   *)
(* is None) or "list" (v is the array).                                    *)
(***************************************************************************)
EXTENDS Integers, Sequences, FiniteSets, TLC

VARIABLES
    env,            \* os.environ: [host, port], each None or Some(str)
    cache,          \* st.cache_resource entry of init_client: None or Some(client)
    constructed,    \* number of chromadb.HttpClient constructions so far
    client,         \* module-level `client` of the running cycle
    pc,             \* position of the script
    trigger,        \* the interaction that started the running cycle
    sel,            \* widget state of the selectbox: None or Some(name)
    opts,           \* options the selectbox was last rendered with
    search_query,   \* widget state of the text input
    top_k,          \* widget state of the slider
    widgets,        \* widgets rendered by the last / running cycle
    collections,    \* names returned by list_collections()
    collection,     \* handle returned by get_collection(): None or Some(name)
    items,          \* response of collection.get(...)
    i,              \* number of rows shaped so far
    df_data,        \* rows built so far
    df,             \* the DataFrame: None or Some(rows)
    results,        \* response of collection.query(...): None or Some(response)
    presented,      \* the search-result expanders rendered, in order
    download,       \* the bytes handed to st.download_button: None or Some(bytes)
    shown,          \* the informational states rendered in the running cycle
    calls,          \* remote calls made in the running cycle, in order
    inFlight,       \* remote calls issued and not yet returned
    failure,        \* "" or the kind of exception that aborted the cycle
    linesep         \* os.linesep of the platform the process runs on

vars == <<env, cache, constructed, client, pc, trigger, sel, opts, search_query,
          top_k, widgets, collections, collection, items, i, df_data, df,
          results, presented, download, shown, calls, inFlight, failure,
          linesep>>

----------------------------------------------------------------------------
(* Bounds of the model *)

MaxItems == 2       \* items in one fetch response
MaxResults == 2     \* results in one query response
MaxRows == 2        \* rows of an exported table (export specification)
MaxFieldLen == 2    \* characters of an exported document (export specification)

----------------------------------------------------------------------------
(* Python values *)

None == <<>>
Some(x) == <<x>>

Min(a, b) == IF a <= b THEN a ELSE b

RECURSIVE Concat(_)
Concat(ss) == IF ss = <<>> THEN <<>> ELSE Head(ss) \o Concat(Tail(ss))

RECURSIVE Join(_, _)
Join(ss, sep) ==
    IF ss = <<>> THEN <<>>
    ELSE IF Len(ss) = 1 THEN ss[1]
    ELSE ss[1] \o sep \o Join(Tail(ss), sep)

Digits == <<"0", "1", "2", "3", "4", "5", "6", "7", "8", "9">>

\* str(n) for a non-negative int
RECURSIVE DecStr(_)
DecStr(n) ==
    IF n < 10 THEN <<Digits[n + 1]>>
    ELSE DecStr(n \div 10) \o <<Digits[(n % 10) + 1]>>

\* repr of a dict whose keys are one-character strs and whose values are ints;
\* the dict is the sequence of its <<key, value>> pairs in insertion order
DictRepr(d) ==
    <<"{">>
    \o Join([j \in 1..Len(d) |-> <<"'", d[j][1], "'", ":", " ">> \o DecStr(d[j][2])],
            <<",", " ">>)
    \o <<"}">>

\* str(x) for x a metadata entry: None or a dict
PyStr(m) == IF m = None THEN <<"N", "o", "n", "e">> ELSE DictRepr(m[1])

Missing == [k |-> "missing", v |-> <<>>]
Null == [k |-> "null", v |-> <<>>]
List(s) == [k |-> "list", v |-> s]

\* truth value of items[key] for an array entry that is None or a list
Truthy(f) == f.k = "list" /\ f.v # <<>>

----------------------------------------------------------------------------
(* Row shaping: the loop body of lines 55-68, for the 0-based index n *)

\* a variant of the guard of line 50 that tests the dict alone (`if items`)
ItemsGuardDictOnly(it) == TRUE

\* `if items and items['ids']` (line 50); the dict always holds the key ids
ItemsGuard(it) == it.ids # <<>>

\* the condition of lines 57-59
EmbeddingGuard(it, n) == it.embeddings.k = "list" /\ Len(it.embeddings.v) > n

\* lines 56-60, when len(items['embeddings'][n]) does not raise
EmbeddingSize(it, n) ==
    IF EmbeddingGuard(it, n) THEN Len(it.embeddings.v[n + 1][1]) ELSE 0

\* items[key][n] if items[key] else None, for key = documents, metadatas:
\* the subscription items[key] raises KeyError when the key is missing, and
\* the index raises IndexError past the end of a non-empty list
FieldRaises(f, n) == f.k = "missing" \/ (Truthy(f) /\ Len(f.v) <= n)

\* the loop body raises: len(None) is a TypeError (line 60), or lines 64-65
RowRaises(it, n) ==
    \/ EmbeddingGuard(it, n) /\ it.embeddings.v[n + 1] = None
    \/ FieldRaises(it.documents, n)
    \/ FieldRaises(it.metadatas, n)

\* the dict of lines 62-67
Row(it, n) ==
    [ID |-> it.ids[n + 1],
     Document |-> IF Truthy(it.documents) THEN it.documents.v[n + 1] ELSE None,
     Metadata |-> IF Truthy(it.metadatas)
                  THEN Some(PyStr(it.metadatas.v[n + 1])) ELSE None,
     EmbeddingSize |-> EmbeddingSize(it, n)]

----------------------------------------------------------------------------
(* Export: df.to_csv(index=False).encode('utf-8'), line 110 *)

Header == << <<"I", "D">>,
             <<"D", "o", "c", "u", "m", "e", "n", "t">>,
             <<"M", "e", "t", "a", "d", "a", "t", "a">>,
             <<"E", "m", "b", "e", "d", "d", "i", "n", "g", " ", "S", "i", "z", "e">> >>

\* the text written for a cell: a missing value is written as the empty
\* string (na_rep = ''), an int in decimal, a str as it is
CellText(o) == IF o = None THEN <<>> ELSE o[1]

Cells(row) ==
    <<row.ID, CellText(row.Document), CellText(row.Metadata),
      DecStr(row.EmbeddingSize)>>

\* csv.QUOTE_MINIMAL as csv.writer applies it: a field is quoted when it
\* holds the delimiter, the quote character or a character of the line
\* terminator lt (pandas passes lineterminator = os.linesep)
NeedsQuote(s, lt) ==
    \E j \in 1..Len(s) : s[j] \in {",", "\""} \cup {lt[m] : m \in 1..Len(lt)}

\* the quote character is doubled inside a quoted field
RECURSIVE Doubled(_)
Doubled(s) ==
    IF s = <<>> THEN <<>>
    ELSE (IF Head(s) = "\"" THEN <<"\"", "\"">> ELSE <<Head(s)>>) \o Doubled(Tail(s))

CsvField(s, lt) ==
    IF NeedsQuote(s, lt) THEN <<"\"">> \o Doubled(s) \o <<"\"">> ELSE s

CsvLine(fields, lt) ==
    Join([j \in 1..Len(fields) |-> CsvField(fields[j], lt)], <<",">>) \o lt

ToCsv(rows, lt) ==
    CsvLine(Header, lt)
    \o Concat([j \in 1..Len(rows) |-> CsvLine(Cells(rows[j]), lt)])

\* code points of the characters the model writes (all of them ASCII)
CodePoint(c) ==
    CASE c = "\n" -> 10  [] c = "\r" -> 13  [] c = " " -> 32   [] c = "\"" -> 34 [] c = "'" -> 39
      [] c = "," -> 44   [] c = "0" -> 48   [] c = "1" -> 49  [] c = "2" -> 50
      [] c = "3" -> 51   [] c = "4" -> 52   [] c = "5" -> 53  [] c = "6" -> 54
      [] c = "7" -> 55   [] c = "8" -> 56   [] c = "9" -> 57  [] c = ":" -> 58
      [] c = "D" -> 68   [] c = "E" -> 69   [] c = "I" -> 73  [] c = "M" -> 77
      [] c = "N" -> 78   [] c = "S" -> 83   [] c = "a" -> 97  [] c = "b" -> 98
      [] c = "c" -> 99   [] c = "d" -> 100  [] c = "e" -> 101 [] c = "g" -> 103
      [] c = "i" -> 105  [] c = "j" -> 106  [] c = "k" -> 107 [] c = "m" -> 109
      [] c = "n" -> 110  [] c = "o" -> 111  [] c = "t" -> 116 [] c = "u" -> 117
      [] c = "z" -> 122  [] c = "{" -> 123  [] c = "}" -> 125

\* str.encode('utf-8'): one byte per code point below 128, two below 2048
Utf8(c) ==
    LET cp == CodePoint(c)
    IN  IF cp < 128 THEN <<cp>> ELSE <<192 + (cp \div 64), 128 + (cp % 64)>>

Encode(text) == Concat([j \in 1..Len(text) |-> Utf8(text[j])])

\* the bytes of line 110
ExportBytes(rows, lt) == Encode(ToCsv(rows, lt))

----------------------------------------------------------------------------
(* Reading an export back: bytes.decode('utf-8') and a comma-separated      *)
(* reader (RFC 4180, as csv.reader reads it): a record ends at "\n", "\r"   *)
(* or "\r\n" outside quotes, a quoted field ends at a quote that is not     *)
(* doubled.  This is the reader of the round-trip property, not code of     *)
(* the dashboard.                                                           *)

Chars ==
    {"\n", "\r", " ", "\"", "'", ",", ":", "{", "}", "0", "1", "2", "3", "4",
     "5", "6", "7", "8", "9", "D", "E", "I", "M", "N", "S", "a", "b", "c", "d",
     "e", "g", "i", "j", "k", "m", "n", "o", "t", "u", "z"}

CharOf(b) == CHOOSE c \in Chars : CodePoint(c) = b

Decode(bytes) == [j \in 1..Len(bytes) |-> CharOf(bytes[j])]

\* st: "sof" start of a field, "fld" in an unquoted field, "qt" in a quoted
\* field, "qq" after a quote inside a quoted field, "cr" after a "\r" that
\* ended a record
RECURSIVE ParseFrom(_, _, _, _, _, _)
ParseFrom(t, p, st, field, rec, recs) ==
    IF p > Len(t)
    THEN IF st = "cr" \/ (st = "sof" /\ rec = <<>>) THEN recs
         ELSE Append(recs, Append(rec, field))
    ELSE LET c == t[p]
             endField == Append(rec, field)
             endRecord == Append(recs, Append(rec, field))
         IN  CASE st = "cr" /\ c = "\n" ->
                    ParseFrom(t, p + 1, "sof", <<>>, <<>>, recs)
               [] st = "cr" /\ c # "\n" ->
                    ParseFrom(t, p, "sof", <<>>, <<>>, recs)
               [] st = "qt" /\ c = "\"" ->
                    ParseFrom(t, p + 1, "qq", field, rec, recs)
               [] st = "qt" /\ c # "\"" ->
                    ParseFrom(t, p + 1, "qt", Append(field, c), rec, recs)
               [] st = "qq" /\ c = "\"" ->
                    ParseFrom(t, p + 1, "qt", Append(field, c), rec, recs)
               [] st = "sof" /\ c = "\"" ->
                    ParseFrom(t, p + 1, "qt", <<>>, rec, recs)
               [] st \in {"sof", "fld", "qq"} /\ c = "," ->
                    ParseFrom(t, p + 1, "sof", <<>>, endField, recs)
               [] st \in {"sof", "fld", "qq"} /\ c = "\n" ->
                    ParseFrom(t, p + 1, "sof", <<>>, <<>>, endRecord)
               [] st \in {"sof", "fld", "qq"} /\ c = "\r" ->
                    ParseFrom(t, p + 1, "cr", <<>>, <<>>, endRecord)
               [] OTHER ->
                    ParseFrom(t, p + 1, "fld", Append(field, c), rec, recs)

ParseCsv(bytes) == ParseFrom(Decode(bytes), 1, "sof", <<>>, <<>>, <<>>)

----------------------------------------------------------------------------
(* The remote vector store and the platform: what the calls can return *)

\* os.getenv(name, default)
GetEnv(o, default) == IF o = None THEN default ELSE o[1]

EnvHosts == {None, Some("db1"), Some("db2")}
EnvPorts == {None, Some("9000"), Some("9001")}

\* the collections the store may hold; list_collections() returns a prefix
AllCollections == <<"docs", "notes">>
ListResponses == {SubSeq(AllCollections, 1, n) : n \in 0..Len(AllCollections)}

IdChars == <<"a", "b", "c", "d">>
IdsOf(n) == [j \in 1..n |-> <<IdChars[j]>>]

Dict1 == << <<"k", 1>> >>
Dict2 == << <<"k", 1>>, <<"j", 2>> >>
Vector == <<1, 2, 3>>

SeqsUpTo(S, n) == UNION {[1..m -> S] : m \in 0..n}

\* an item as the store holds it: optional document, metadata and embedding
ItemKinds ==
    {[doc |-> Some(<<"a">>), meta |-> Some(Dict1), emb |-> Some(Vector)],
     [doc |-> None, meta |-> None, emb |-> Some(Vector)],
     [doc |-> None, meta |-> None, emb |-> None]}

\* collection.get(include=['metadatas', 'documents', 'embeddings']) of a
\* collection holding the items ks: parallel arrays of equal length
FetchOf(ks) ==
    [ids |-> IdsOf(Len(ks)),
     documents |-> List([j \in 1..Len(ks) |-> ks[j].doc]),
     metadatas |-> List([j \in 1..Len(ks) |-> ks[j].meta]),
     embeddings |-> List([j \in 1..Len(ks) |-> ks[j].emb])]

FetchResponses == {FetchOf(ks) : ks \in SeqsUpTo(ItemKinds, MaxItems)}

\* every shape a response dict can have: each array missing, None, or a
\* list of any length up to MaxItems
FieldShapes(E) == {Missing, Null} \cup {List(x) : x \in SeqsUpTo(E, MaxItems)}

ShapeResponses ==
    {[ids |-> IdsOf(n), documents |-> d, metadatas |-> m, embeddings |-> e] :
        n \in 0..MaxItems,
        d \in FieldShapes({None, Some(<<"a">>)}),
        m \in FieldShapes({None, Some(Dict1)}),
        e \in FieldShapes({None, Some(Vector)})}

\* distances, in units of 0.00001
Distances == {0, 4, 6}

Hits ==
    {[doc |-> Some(<<"a">>), meta |-> Some(Dict1), distance |-> d] : d \in Distances}
    \cup {[doc |-> None, meta |-> None, distance |-> d] : d \in Distances}

Ranked(hs) == \A j \in 1..(Len(hs) - 1) : hs[j].distance <= hs[j + 1].distance

\* collection.query(query_texts=[q], n_results=n, include=[...]): one inner
\* list per query text, at most n hits, nearest first
QueryOf(hs) ==
    [documents |-> << [j \in 1..Len(hs) |-> hs[j].doc] >>,
     metadatas |-> << [j \in 1..Len(hs) |-> hs[j].meta] >>,
     distances |-> << [j \in 1..Len(hs) |-> hs[j].distance] >>]

QueryResponses(n) ==
    {QueryOf(hs) : hs \in {x \in SeqsUpTo(Hits, Min(n, MaxResults)) : Ranked(x)}}

SearchTexts == {"", "hello"}

\* exported documents: every str of at most MaxFieldLen characters
CsvAlphabet == {"a", ",", "\"", "\n", "\r"}
ExportItems ==
    [doc : {None} \cup {Some(x) : x \in SeqsUpTo(CsvAlphabet, MaxFieldLen)},
     meta : {None, Some(Dict2)},
     emb : {Some(Vector)}]
ExportResponses ==
    {FetchOf(ks) : ks \in SeqsUpTo(ExportItems, MaxRows) \ {<<>>}}

----------------------------------------------------------------------------
(* Widgets *)

SliderMin == 1
SliderMax == 10
SliderDefault == 3

\* truth value of a str
StrTruthy(x) == x # ""

\* a variant of the test of line 24 that compares with None instead
NoNamesIsNone(names) == FALSE

\* `if not collection_names` (line 24)
NoNames(names) == names = <<>>

\* the value st.selectbox returns (lines 28-31): None without options, the
\* kept choice while the options are the ones it was made from, else the
\* first option
SelectboxValue(state, rendered, names) ==
    IF names = <<>> THEN None
    ELSE IF state # None /\ rendered = names
            /\ (\E j \in 1..Len(names) : names[j] = state[1])
    THEN state ELSE Some(names[1])

\* a variant of the test of line 33 with the condition inverted
SelectedGuardInverted(choice) == choice = None

\* `if selected_collection` (line 33)
SelectedGuard(choice) == choice # None /\ StrTruthy(choice[1])

\* a variant of the test of line 86 that compares with None instead
SearchGuardNotNone(q) == TRUE

\* `if search_query` (line 86)
SearchGuard(q) == StrTruthy(q)

\* f"{distance:.4f}": the distance rounded to a multiple of 0.0001, for a
\* distance given in units of 0.00001 that is not a tie
Fmt4(d) == (d + 5) \div 10

\* a variant of the expanders that lists the results farthest first
PresentReversed(r) ==
    LET docs == r.documents[1]
        metas == r.metadatas[1]
        dists == r.distances[1]
        n == Min(Len(docs), Min(Len(metas), Len(dists)))
    IN  [j \in 1..n |-> [n |-> j, distance |-> Fmt4(dists[n + 1 - j]),
                         document |-> docs[n + 1 - j],
                         metadata |-> metas[n + 1 - j]]]

\* the expanders of lines 94-101: zip stops at the shortest of the three lists
Present(r) ==
    LET docs == r.documents[1]
        metas == r.metadatas[1]
        dists == r.distances[1]
        n == Min(Len(docs), Min(Len(metas), Len(dists)))
    IN  [j \in 1..n |-> [n |-> j, distance |-> Fmt4(dists[j]),
                         document |-> docs[j], metadata |-> metas[j]]]

----------------------------------------------------------------------------
(* init_client, lines 10-14 *)

\* chromadb.HttpClient(host=host, port=port) with the values of lines 12-13
NewClient(e) ==
    [host |-> GetEnv(e.host, "localhost"), port |-> GetEnv(e.port, "8000")]

\* a variant without the st.cache_resource decorator: the body always runs
CacheMissAlways(c) == TRUE

\* st.cache_resource: the function body runs only on a cache miss
CacheMiss(c) == c = None

----------------------------------------------------------------------------
(* State after the process has started and the first page load has begun *)

Call(op, arg, n) == [op |-> op, arg |-> arg, n |-> n]

Waiting == {"wait_list", "wait_get_collection", "wait_get", "wait_query"}

Init ==
    /\ env = [host |-> None, port |-> None]
    /\ cache = None
    /\ constructed = 0
    /\ client = None
    /\ pc = "init_client"
    /\ trigger = "load"
    /\ sel = None
    /\ opts = <<>>
    /\ search_query = ""
    /\ top_k = SliderDefault
    /\ widgets = {}
    /\ collections = <<>>
    /\ collection = None
    /\ items = None
    /\ i = 0
    /\ df_data = <<>>
    /\ df = None
    /\ results = None
    /\ presented = <<>>
    /\ download = None
    /\ shown = {}
    /\ calls = <<>>
    /\ inFlight = 0
    /\ failure = ""
    /\ linesep = <<"\n">>

----------------------------------------------------------------------------
(* User interactions: each one re-executes the script from the top *)

process == <<env, cache, constructed, linesep>>
widgetState == <<sel, opts, search_query, top_k>>
locals == <<client, collections, collection, items, i, df_data, df, results,
            presented, download, shown, calls, inFlight, failure>>

StartCycle(t) ==
    /\ pc = "idle"
    /\ pc' = "init_client"
    /\ trigger' = t
    /\ widgets' = {}
    /\ UNCHANGED <<process, locals>>

Rerun ==
    /\ StartCycle("rerun")
    /\ UNCHANGED widgetState

SelectCollection ==
    \E j \in 1..Len(opts) :
        /\ "selectbox" \in widgets
        /\ sel # Some(opts[j])
        /\ StartCycle("select")
        /\ sel' = Some(opts[j])
        /\ UNCHANGED <<opts, search_query, top_k>>

TypeSearch ==
    \E q \in SearchTexts :
        /\ "text_input" \in widgets
        /\ q # search_query
        /\ StartCycle("search")
        /\ search_query' = q
        /\ UNCHANGED <<sel, opts, top_k>>

SlideTopK ==
    \E k \in SliderMin..SliderMax :
        /\ "slider" \in widgets
        /\ k # top_k
        /\ StartCycle("slide")
        /\ top_k' = k
        /\ UNCHANGED <<sel, opts, search_query>>

ClickDownload ==
    /\ "download_button" \in widgets
    /\ StartCycle("download")
    /\ UNCHANGED widgetState

\* the environment of the process is changed from outside the script
SetEnv ==
    \E h \in EnvHosts, p \in EnvPorts :
        /\ env' = [host |-> h, port |-> p]
        /\ env' # env
        /\ UNCHANGED <<cache, constructed, linesep, pc, trigger, widgets,
                       widgetState, locals>>

----------------------------------------------------------------------------
(* The script, top to bottom *)

\* line 16: client = init_client()
InitClient ==
    /\ pc = "init_client"
    /\ IF CacheMiss(cache)
       THEN /\ client' = Some(NewClient(env))
            /\ cache' = Some(NewClient(env))
            /\ constructed' = constructed + 1
       ELSE /\ client' = cache
            /\ UNCHANGED <<cache, constructed>>
    /\ pc' = "list_collections"
    /\ UNCHANGED <<env, linesep, trigger, widgets, widgetState, collections,
                   collection, items, i, df_data, df, results, presented,
                   download, shown, calls, inFlight, failure>>

\* a blocking remote call is issued ...
Issue(c, next) ==
    /\ calls' = Append(calls, c)
    /\ inFlight' = inFlight + 1
    /\ pc' = next

\* line 21: client.list_collections()
CallListCollections ==
    /\ pc = "list_collections"
    /\ Issue(Call("list_collections", "", 0), "wait_list")
    /\ UNCHANGED <<process, trigger, widgets, widgetState, client, collections,
                   collection, items, i, df_data, df, results, presented,
                   download, shown, failure>>

\* lines 21-22: ... and returns the collections; their names are collected
RetListCollections ==
    \E names \in ListResponses :
        /\ pc = "wait_list"
        /\ inFlight' = inFlight - 1
        /\ collections' = names
        /\ pc' = "branch"
        /\ UNCHANGED <<process, trigger, widgets, widgetState, client,
                       collection, items, i, df_data, df, results, presented,
                       download, shown, calls, failure>>

\* lines 24-25: st.warning("No collections found in ChromaDB")
NoCollections ==
    /\ pc = "branch"
    /\ NoNames(collections)
    /\ shown' = shown \cup {"no_collections"}
    /\ pc' = "done"
    /\ UNCHANGED <<process, trigger, widgets, widgetState, client, collections,
                   collection, items, i, df_data, df, results, presented,
                   download, calls, inFlight, failure>>

\* lines 28-33: the collection selector
Selectbox ==
    /\ pc = "branch"
    /\ ~NoNames(collections)
    /\ sel' = SelectboxValue(sel, opts, collections)
    /\ pc' = IF SelectedGuard(sel') THEN "get_collection" ELSE "done"
    /\ opts' = collections
    /\ widgets' = widgets \cup {"selectbox"}
    /\ UNCHANGED <<process, trigger, search_query, top_k, locals>>

\* line 34: client.get_collection(selected_collection)
CallGetCollection ==
    /\ pc = "get_collection"
    /\ Issue(Call("get_collection", sel[1], 0), "wait_get_collection")
    /\ UNCHANGED <<process, trigger, widgets, widgetState, client, collections,
                   collection, items, i, df_data, df, results, presented,
                   download, shown, failure>>

\* lines 34-45: the handle comes back; its id, name and metadata are shown
RetGetCollection ==
    /\ pc = "wait_get_collection"
    /\ inFlight' = inFlight - 1
    /\ collection' = sel
    /\ shown' = shown \cup {"collection_information"}
    /\ pc' = "get"
    /\ UNCHANGED <<process, trigger, widgets, widgetState, client, collections,
                   items, i, df_data, df, results, presented, download, calls,
                   failure>>

\* line 48: collection.get(include=['metadatas', 'documents', 'embeddings'])
CallGet ==
    /\ pc = "get"
    /\ Issue(Call("get", collection[1], 0), "wait_get")
    /\ UNCHANGED <<process, trigger, widgets, widgetState, client, collections,
                   collection, items, i, df_data, df, results, presented,
                   download, shown, failure>>

RetGet ==
    \E it \in FetchResponses :
        /\ pc = "wait_get"
        /\ inFlight' = inFlight - 1
        /\ items' = Some(it)
        /\ pc' = "guard"
        /\ UNCHANGED <<process, trigger, widgets, widgetState, client,
                       collections, collection, i, df_data, df, results,
                       presented, download, shown, calls, failure>>

\* lines 50, 115-116: st.info("No items found in this collection")
NoItems ==
    /\ pc = "guard"
    /\ ~ItemsGuard(items[1])
    /\ shown' = shown \cup {"no_items"}
    /\ pc' = "done"
    /\ UNCHANGED <<process, trigger, widgets, widgetState, client, collections,
                   collection, items, i, df_data, df, results, presented,
                   download, calls, inFlight, failure>>

\* lines 50-54
StartShaping ==
    /\ pc = "guard"
    /\ ItemsGuard(items[1])
    /\ shown' = shown \cup {"collection_contents"}
    /\ df_data' = <<>>
    /\ i' = 0
    /\ pc' = "shape"
    /\ UNCHANGED <<process, trigger, widgets, widgetState, client, collections,
                   collection, items, df, results, presented, download, calls,
                   inFlight, failure>>

\* lines 55-68: one iteration of the loop
ShapeRow ==
    /\ pc = "shape"
    /\ i < Len(items[1].ids)
    /\ ~RowRaises(items[1], i)
    /\ df_data' = Append(df_data, Row(items[1], i))
    /\ i' = i + 1
    /\ UNCHANGED <<process, pc, trigger, widgets, widgetState, client,
                   collections, collection, items, df, results, presented,
                   download, shown, calls, inFlight, failure>>

\* lines 60, 64, 65: the iteration raises and the cycle is aborted
ShapeRaises ==
    /\ pc = "shape"
    /\ i < Len(items[1].ids)
    /\ RowRaises(items[1], i)
    /\ failure' = "shape"
    /\ pc' = "failed"
    /\ UNCHANGED <<process, trigger, widgets, widgetState, client, collections,
                   collection, items, i, df_data, df, results, presented,
                   download, shown, calls, inFlight>>

\* lines 70-84: the DataFrame, the metrics, the search box and the slider
BuildDf ==
    /\ pc = "shape"
    /\ i = Len(items[1].ids)
    /\ df' = Some(df_data)
    /\ shown' = shown \cup {"search_documents"}
    /\ widgets' = widgets \cup {"text_input", "slider"}
    /\ pc' = "search"
    /\ UNCHANGED <<process, trigger, widgetState, client, collections,
                   collection, items, i, df_data, results, presented, download,
                   calls, inFlight, failure>>

\* line 86, condition false
SkipSearch ==
    /\ pc = "search"
    /\ ~SearchGuard(search_query)
    /\ pc' = "all_documents"
    /\ UNCHANGED <<process, trigger, widgets, widgetState, locals>>

\* lines 86-91: collection.query(query_texts=[search_query], n_results=top_k, ...)
CallQuery ==
    /\ pc = "search"
    /\ SearchGuard(search_query)
    /\ Issue(Call("query", search_query, top_k), "wait_query")
    /\ UNCHANGED <<process, trigger, widgets, widgetState, client, collections,
                   collection, items, i, df_data, df, results, presented,
                   download, shown, failure>>

RetQuery ==
    /\ pc = "wait_query"
    /\ \E r \in QueryResponses(calls[Len(calls)].n) : results' = Some(r)
    /\ inFlight' = inFlight - 1
    /\ pc' = "render_results"
    /\ UNCHANGED <<process, trigger, widgets, widgetState, client, collections,
                   collection, items, i, df_data, df, presented, download,
                   shown, calls, failure>>

\* lines 93-101
RenderResults ==
    /\ pc = "render_results"
    /\ shown' = shown \cup {"search_results"}
    /\ presented' = Present(results[1])
    /\ pc' = "all_documents"
    /\ UNCHANGED <<process, trigger, widgets, widgetState, client, collections,
                   collection, items, i, df_data, df, results, download, calls,
                   inFlight, failure>>

\* lines 104-114: the table and the download button with the exported bytes
AllDocuments ==
    /\ pc = "all_documents"
    /\ shown' = shown \cup {"all_documents"}
    /\ download' = Some(ExportBytes(df[1], linesep))
    /\ widgets' = widgets \cup {"download_button"}
    /\ pc' = "done"
    /\ UNCHANGED <<process, trigger, widgetState, client, collections,
                   collection, items, i, df_data, df, results, presented, calls,
                   inFlight, failure>>

\* a remote call raises (the service is unreachable, the collection is gone):
\* nothing catches it and the cycle is aborted
RemoteRaises ==
    /\ pc \in Waiting
    /\ inFlight' = inFlight - 1
    /\ failure' = "remote"
    /\ pc' = "failed"
    /\ UNCHANGED <<process, trigger, widgets, widgetState, client, collections,
                   collection, items, i, df_data, df, results, presented,
                   download, shown, calls>>

\* the script run ends: its globals are dropped, and Streamlit forgets the
\* state of the widgets the run did not render
Finish ==
    /\ pc \in {"done", "failed"}
    /\ pc' = "idle"
    /\ trigger' = ""
    /\ sel' = IF "selectbox" \in widgets THEN sel ELSE None
    /\ opts' = IF "selectbox" \in widgets THEN opts ELSE <<>>
    /\ search_query' = IF "text_input" \in widgets THEN search_query ELSE ""
    /\ top_k' = IF "slider" \in widgets THEN top_k ELSE SliderDefault
    /\ client' = None
    /\ collections' = <<>>
    /\ collection' = None
    /\ items' = None
    /\ i' = 0
    /\ df_data' = <<>>
    /\ df' = None
    /\ results' = None
    /\ presented' = <<>>
    /\ download' = None
    /\ shown' = {}
    /\ calls' = <<>>
    /\ failure' = ""
    /\ UNCHANGED <<process, widgets, inFlight>>

Next ==
    \/ Rerun \/ SelectCollection \/ TypeSearch \/ SlideTopK \/ ClickDownload
    \/ InitClient
    \/ CallListCollections \/ RetListCollections \/ NoCollections \/ Selectbox
    \/ CallGetCollection \/ RetGetCollection
    \/ CallGet \/ RetGet \/ NoItems
    \/ StartShaping \/ ShapeRow \/ ShapeRaises \/ BuildDf
    \/ SkipSearch \/ CallQuery \/ RetQuery \/ RenderResults
    \/ AllDocuments
    \/ RemoteRaises
    \/ Finish

Spec == Init /\ [][Next]_vars

----------------------------------------------------------------------------
(* The service is unreachable while the environment changes under the      *)
(* process: every cycle gets its client and fails at list_collections()    *)

NextClient ==
    \/ SetEnv \/ Rerun \/ InitClient \/ CallListCollections \/ RemoteRaises
    \/ Finish

SpecClient == Init /\ [][NextClient]_vars

----------------------------------------------------------------------------
(* Row shaping alone: the script at line 50, holding a fetch response *)

\* the state in which collection.get(...) has just returned `it`
Fetched(it) ==
    /\ env = [host |-> None, port |-> None]
    /\ cache = Some(NewClient(env))
    /\ constructed = 1
    /\ client = cache
    /\ pc = "guard"
    /\ trigger = "load"
    /\ sel = Some("docs")
    /\ opts = <<"docs">>
    /\ search_query = ""
    /\ top_k = SliderDefault
    /\ widgets = {"selectbox"}
    /\ collections = <<"docs">>
    /\ collection = Some("docs")
    /\ items = Some(it)
    /\ i = 0
    /\ df_data = <<>>
    /\ df = None
    /\ results = None
    /\ presented = <<>>
    /\ download = None
    /\ shown = {"collection_information"}
    /\ calls = <<Call("list_collections", "", 0), Call("get_collection", "docs", 0),
                 Call("get", "docs", 0)>>
    /\ inFlight = 0
    /\ failure = ""

InitShape ==
    /\ linesep = <<"\n">>
    /\ \E it \in ShapeResponses : Fetched(it)

NextShape == NoItems \/ StartShaping \/ ShapeRow \/ ShapeRaises \/ BuildDf

SpecShape == InitShape /\ [][NextShape]_vars

----------------------------------------------------------------------------
(* Export alone: from a fetch response to the bytes of the download, on    *)
(* either platform                                                         *)

InitCsv ==
    /\ linesep \in {<<"\n">>, <<"\r", "\n">>}
    /\ \E it \in ExportResponses : Fetched(it)

NextCsv == StartShaping \/ ShapeRow \/ BuildDf \/ SkipSearch \/ AllDocuments

SpecCsv == InitCsv /\ [][NextCsv]_vars

----------------------------------------------------------------------------
(* Properties *)

Ops == [j \in 1..Len(calls) |-> calls[j].op]
NoCall(op) == \A j \in 1..Len(calls) : calls[j].op # op

\* C1: in a cycle where list_collections() returned no collection, the
\* script goes on to the "No collections found" warning and ends there
\* without an exception, having made the listing call only: no
\* get_collection, no item fetch, no query, no rows and no export.
C1_NoCollections ==
    (pc \in {"branch", "done"} /\ collections = <<>>) =>
        /\ pc = "branch" => ENABLED NoCollections /\ ~ENABLED Selectbox
        /\ pc = "done" => shown = {"no_collections"}
        /\ Ops = <<"list_collections">>
        /\ failure = ""
        /\ items = None /\ df_data = <<>> /\ df = None
        /\ results = None /\ download = None
        /\ widgets = {}

C1_Witness ==
    pc = "done" /\ collections = <<>> /\ "no_collections" \in shown

\* C2: in a cycle where the item fetch returned an empty ids array, for
\* whichever collection, the script goes on to the "No items found" message
\* and ends there: no row is built, no query is issued even with a
\* non-empty search text, and no export is offered.
C2_NoItems ==
    (items # None /\ items[1].ids = <<>>) =>
        /\ pc \in {"guard", "done"}
        /\ pc = "guard" => ENABLED NoItems /\ ~ENABLED StartShaping
        /\ pc = "done" => "no_items" \in shown
        /\ failure = ""
        /\ df_data = <<>> /\ df = None
        /\ NoCall("query") /\ results = None /\ presented = <<>>
        /\ download = None /\ "download_button" \notin widgets

C2_Witness ==
    /\ pc = "done" /\ items # None /\ items[1].ids = <<>>
    /\ "no_items" \in shown
    /\ search_query # ""
    /\ collection = Some("notes")

\* the loop of lines 55-68 has ended, by running out of ids or by raising
LoopEnded == items # None /\ items[1].ids # <<>> /\ pc \notin {"guard", "shape"}

ParallelResponse(it) ==
    \A f \in {it.documents, it.metadatas, it.embeddings} :
        f.k = "list" /\ Len(f.v) = Len(it.ids)

\* C3: for a fetch response with parallel arrays and non-empty ids, shaping
\* yields exactly len(ids) rows, and row j holds ids[j], documents[j] and
\* the string form of metadatas[j] ("None" for a null), in response order.
C3_RowsAligned ==
    (LoopEnded /\ ParallelResponse(items[1])) =>
        /\ df # None
        /\ Len(df[1]) = Len(items[1].ids)
        /\ \A j \in 1..Len(df[1]) :
              /\ df[1][j].ID = items[1].ids[j]
              /\ df[1][j].Document = items[1].documents.v[j]
              /\ df[1][j].Metadata =
                    Some(IF items[1].metadatas.v[j] = None
                         THEN <<"N", "o", "n", "e">>
                         ELSE DictRepr(items[1].metadatas.v[j][1]))

\* the length of an embedding entry, 0 for an item without embedding
EntryLen(e) == IF e = None THEN 0 ELSE Len(e[1])

\* C4: for a fetch response with non-empty ids (its documents and metadatas
\* parallel to ids), every index j gets a row whose Embedding Size is the
\* length of embeddings[j] when the embeddings array is there and reaches
\* j, and 0 otherwise (array absent, or shorter than ids), never a failure.
C4_EmbeddingSize ==
    (/\ LoopEnded
     /\ \A f \in {items[1].documents, items[1].metadatas} :
           f.k = "list" /\ Len(f.v) = Len(items[1].ids)) =>
        /\ df # None
        /\ Len(df[1]) = Len(items[1].ids)
        /\ \A j \in 1..Len(df[1]) :
              df[1][j].EmbeddingSize =
                 IF items[1].embeddings.k = "list" /\ j <= Len(items[1].embeddings.v)
                 THEN EntryLen(items[1].embeddings.v[j]) ELSE 0

\* every optional array is absent as a whole (key missing, or None) or is
\* parallel to ids, with entries that may be null
OptionalFields(it) ==
    \A f \in {it.documents, it.metadatas, it.embeddings} :
        f.k \in {"missing", "null"} \/ Len(f.v) = Len(it.ids)

Absent(f, j) == f.k \in {"missing", "null"} \/ f.v[j] = None

\* C5: shaping never raises on a missing optional field: with each of the
\* documents, metadatas and embeddings arrays absent as a whole or holding
\* null entries, all len(ids) rows are built, a missing document or
\* metadata showing as a null marker and a missing embedding as size 0.
C5_MissingFieldsTolerated ==
    (LoopEnded /\ OptionalFields(items[1])) =>
        /\ failure = ""
        /\ df # None
        /\ Len(df[1]) = Len(items[1].ids)
        /\ \A j \in 1..Len(df[1]) :
              /\ Absent(items[1].documents, j) => df[1][j].Document = None
              /\ Absent(items[1].metadatas, j) =>
                    df[1][j].Metadata \in {None, Some(<<"N", "o", "n", "e">>)}
              /\ Absent(items[1].embeddings, j) => df[1][j].EmbeddingSize = 0

\* C6: a cycle whose search text is empty makes no query call; a query call
\* is made only with a non-empty search text, carries that text, and its
\* n_results is the slider's value, an integer from 1 to 10.
C6_QueryOnlyOnText ==
    /\ top_k \in SliderMin..SliderMax
    /\ SliderMin = 1 /\ SliderMax = 10
    /\ search_query = "" => NoCall("query")
    /\ pc \in {"all_documents", "done"} /\ df # None /\ search_query = "" =>
          Ops = <<"list_collections", "get_collection", "get">>
    /\ \A j \in 1..Len(calls) :
          calls[j].op = "query" =>
              /\ calls[j].arg # "" /\ calls[j].arg = search_query
              /\ calls[j].n = top_k

C6_Witness ==
    /\ pc = "done"
    /\ \E j \in 1..Len(calls) : calls[j].op = "query" /\ calls[j].n = 10

\* C7: with a non-empty query and the slider at top_k, the results shown
\* are those of the response, all of them and in its order: as many as the
\* service returned (at most top_k), result j carrying documents[0][j],
\* metadatas[0][j] and distances[0][j] (rendered with 4 decimals), so the
\* distances shown never decrease.
C7_ResultsInOrder ==
    (pc \in {"all_documents", "done"} /\ results # None) =>
        LET r == results[1]
        IN  /\ search_query # ""
            /\ Len(presented) = Len(r.distances[1])
            /\ Len(presented) <= top_k
            /\ \A j \in 1..Len(presented) :
                  /\ presented[j].n = j
                  /\ presented[j].document = r.documents[1][j]
                  /\ presented[j].metadata = r.metadatas[1][j]
                  /\ presented[j].distance = (r.distances[1][j] + 5) \div 10
            /\ \A j \in 1..(Len(presented) - 1) :
                  presented[j].distance <= presented[j + 1].distance

C7_Witness ==
    /\ pc = "done" /\ Len(presented) = 2
    /\ presented[1].distance < presented[2].distance
    /\ presented[1].document # presented[2].document

\* C8: the client is constructed at most once in the life of the process:
\* the first init_client() builds it from CHROMA_HOST and CHROMA_PORT
\* (localhost and 8000 when unset), every later call returns that instance,
\* and a later change of the environment changes neither.
C8_ClientConstructedOnce ==
    /\ [](/\ constructed <= 1
          /\ cache # None <=> constructed = 1
          /\ client # None => client = cache)
    /\ [][/\ cache # None => cache' = cache
          /\ cache = None /\ cache' # None =>
                cache' = Some([host |-> IF env.host = None THEN "localhost"
                                        ELSE env.host[1],
                               port |-> IF env.port = None THEN "8000"
                                        ELSE env.port[1]])]_vars

C8_Witness ==
    /\ trigger = "rerun" /\ pc = "list_collections"
    /\ client = cache
    /\ env.host # None /\ env.host[1] # client[1].host
    /\ env.port # None /\ env.port[1] # client[1].port

\* the text each cell of a row shows: the str itself, nothing for a null,
\* the decimal digits of the size
Displayable(row) ==
    <<row.ID,
      IF row.Document = None THEN <<>> ELSE row.Document[1],
      IF row.Metadata = None THEN <<>> ELSE row.Metadata[1],
      DecStr(row.EmbeddingSize)>>

\* C9: the export reads back as the header and then one record per row,
\* each equal field by field to what the row shows, whatever the documents
\* hold (nulls, commas, quotes, line breaks).
C9_ExportRoundTrip ==
    download # None =>
        ParseCsv(download[1])
            = <<Header>> \o [j \in 1..Len(df[1]) |-> Displayable(df[1][j])]

\* C10 as stated: the cycle an interaction triggers makes exactly one
\* remote call.
C10_OneCallPerInteraction ==
    (pc = "done" /\ trigger \in {"select", "search", "download"}) =>
        Len(calls) = 1

\* C10, amended: the remote calls of a cycle are made one after the other,
\* each blocking until it returns, so at most one is in flight; a cycle that
\* runs to its end makes list_collections, then get_collection and get when
\* a collection is listed, then query when there are items and a search
\* text (1, 3 or 4 calls); an interaction is taken only between cycles.
C10_SequentialCalls ==
    /\ inFlight \in {0, 1}
    /\ inFlight = 1 <=> pc \in Waiting
    /\ pc = "idle" <=> trigger = ""
    /\ pc = "idle" => calls = <<>>
    /\ Ops = SubSeq(<<"list_collections", "get_collection", "get", "query">>,
                    1, Len(calls))
    /\ pc = "done" =>
          Len(calls) = 1 + (IF collections # <<>> THEN 2 ELSE 0)
                         + (IF df # None /\ search_query # "" THEN 1 ELSE 0)

C10_Witness ==
    pc = "done" /\ trigger = "download" /\ Len(calls) = 4

====
